---- MODULE Spec2Model ----
(***************************************************************************)
(* State-machine model of the yt-checker daemon (monitor.ts and the        *)
(* classes it drives): the periodic check cycle with its in-progress       *)
(* guard, the sequential per-node loop, the three-state availability       *)
(* machine with debounced alerting, the webhook dispatcher's endpoint      *)
(* resolution, and the daemon's life cycle: start-up in subscription or    *)
(* PROXY_LINK mode, the periodic subscription refresh, the probe timeout   *)
(* and the shutdown handler.                                               *)
(***************************************************************************)
EXTENDS Integers, Sequences, FiniteSets, TLC

\* ------------------------------------------------------------------ bounds
MaxCycles == 4
MaxTime == 3
MaxSkips == 1
MaxRefreshes == 1
TickMs == 60000

\* ------------------------------------------------------- program constants
Null == 0
\* maxAttempts of XrayManager.waitForReady
MaxAttempts == 30

\* ------------------------------------------------------------ value spaces
HealthStates == {"healthy", "degraded", "failed"}
Events == {"error", "recovery", "warning", "degradation"}
NoLabel == "undefined"
\* VideoChecker.socksProxy: unset, or XrayManager.getSocksProxy()
NoProxy == "undefined"
SocksEndpoint == "socks5://127.0.0.1:10808"
NodeLists == {<<>>, <<"A", "B">>}
\* config.videos, by id
Videos == <<"v1">>
\* ALERT_THRESHOLD and DEBOUNCE_MINUTES as parsed from the environment
AlertThresholds == {0, 1, 2}
DebounceChoices == {1}

\* config.webhooks.endpoints: the enabled flag and the subscribed events of
\* each endpoint
AllEvents == << [enabled |-> TRUE, events |-> Events] >>
EndpointConfigs ==
  { AllEvents,
    << [enabled |-> TRUE, events |-> {"error", "recovery", "warning"}] >>,
    << [enabled |-> FALSE, events |-> {"degradation"}],
       [enabled |-> TRUE, events |-> {"warning"}] >> }

\* config.webhooks: the enabled flag and the endpoints
WebhookConfigs ==
  [enabled : {TRUE}, endpoints : EndpointConfigs]
    \cup { [enabled |-> FALSE, endpoints |-> AllEvents] }

\* the environment: whether SUBSCRIPTION_URL and PROXY_LINK are set
Environments ==
  { [subscriptionUrl |-> TRUE, proxyLink |-> FALSE],
    [subscriptionUrl |-> FALSE, proxyLink |-> TRUE],
    [subscriptionUrl |-> FALSE, proxyLink |-> FALSE] }

\* the schemes fetchAndParse accepts as node lines
SupportedSchemes == {"vless", "vmess", "trojan", "ss", "shadowsocks"}

\* subscription responses: the HTTP status is ok or not, the body is valid
\* base64 or not, and the decoded body has the given non-empty lines
ValidBody ==
  [ok |-> TRUE, base64 |-> TRUE,
   lines |-> << [scheme |-> "vless", label |-> "A"],
                [scheme |-> "trojan", label |-> "B"] >>]
SwappedBody ==
  [ok |-> TRUE, base64 |-> TRUE,
   lines |-> << [scheme |-> "trojan", label |-> "B"],
                [scheme |-> "vless", label |-> "A"] >>]
EmptyBody == [ok |-> TRUE, base64 |-> TRUE, lines |-> <<>>]
UndecodableBody == [ok |-> TRUE, base64 |-> FALSE, lines |-> <<>>]
NoNodeBody ==
  [ok |-> TRUE, base64 |-> TRUE,
   lines |-> << [scheme |-> "https", label |-> "X"] >>]
HttpErrorBody == [ok |-> FALSE, base64 |-> TRUE, lines |-> <<>>]
StartupBodies == {ValidBody, HttpErrorBody}
RefreshBodies == {SwappedBody, EmptyBody, UndecodableBody, NoNodeBody}
NoBody == [ok |-> FALSE, base64 |-> FALSE, lines |-> <<>>]
\* no operation is being served
NoCall == [op |-> "none"]
NoReply == [op |-> "none"]

VARIABLES
  \* configuration and runtime parameters, fixed after construction
  alertThreshold, debounceMinutes, webhooksEnabled, endpoints,
  \* the environment read by start()
  subscriptionUrl, proxyLink,
  \* YouTubeMonitor fields
  currentNodes, isCheckInProgress,
  \* MonitorState
  consecutiveFailures, lastAlertSent, currentState, totalChecks,
  totalFailures, lastCheckResults, proxyEnabled, proxyStatus,
  \* VideoChecker.nodeLabel and VideoChecker.socksProxy
  nodeLabel, socksProxy,
  \* the daemon's resources: the process of this.xrayManager ("undefined"
  \* when there is no manager), the subscription refresh timer, the response
  \* of the refresh in flight, the metrics listener
  xrayManager, refreshInterval, fetched, metricsListening,
  \* the shutdown handler's position and the steps it has performed
  shutdown, shutdownSteps,
  \* the wall clock (in ticks of TickMs milliseconds)
  now,
  \* control: the daemon's start-up phase and the position of the cycle
  daemon, pc,
  \* locals of the running cycle
  allResults, nodeIdx, proc, failedCount, previousState, pendingEvent,
  cycleNodes, timedOut,
  \* observations of the last cycle
  analyzed, decision, alertEvent, notified, threw,
  \* history
  active, invocations, skippedTicks, failedSinceRecovery,
  zeroSinceDegradation, lastErrorPostAt,
  \* the engine processes alive in the operating system, and the refreshes
  \* started so far
  engines, refreshes,
  \* the operation being served for a caller outside the check cycle (an
  \* HTTP request to the metrics server, or a call of one of the program's
  \* functions) and what it answers
  call, reply

config == <<alertThreshold, debounceMinutes, webhooksEnabled, endpoints, currentNodes>>
environment == <<subscriptionUrl, proxyLink>>
resources == <<xrayManager, refreshInterval, fetched, metricsListening, refreshes>>
signals == <<shutdown, shutdownSteps>>
units == <<call, reply>>
proxyState == <<proxyEnabled, proxyStatus>>
lifecycle == <<environment, units, proxyState, resources, signals>>
monitorState == <<consecutiveFailures, lastAlertSent, currentState, totalChecks,
                  totalFailures, lastCheckResults>>
locals == <<allResults, nodeIdx, proc, failedCount, previousState, pendingEvent,
            cycleNodes, timedOut>>
observed == <<analyzed, decision, alertEvent, notified, threw>>
history == <<failedSinceRecovery, zeroSinceDegradation, lastErrorPostAt>>
counters == <<active, invocations, skippedTicks>>

vars == <<config, isCheckInProgress, monitorState, nodeLabel, socksProxy, now,
          daemon, pc, locals, observed, history, counters, engines, lifecycle>>

\* ---------------------------------------------------------------- helpers

\* Date.now(), in milliseconds
DateNow == now * TickMs

\* allResults.filter(r => !r.success).length
RECURSIVE CountFailed(_)
CountFailed(results) ==
  IF results = <<>> THEN 0
  ELSE (IF Head(results).success THEN 0 ELSE 1) + CountFailed(Tail(results))

\* the results of one checkAllVideos() call: one result per configured
\* video, in configuration order, labelled with the checker's node label
ProbeResults(label, outcome) ==
  [i \in DOMAIN Videos |->
     [node_label |-> label, video_id |-> Videos[i], success |-> outcome[i]]]

\* the failed results synthesized for every video of a node whose check threw
SyntheticFailures(label) ==
  [i \in DOMAIN Videos |->
     [node_label |-> label, video_id |-> Videos[i], success |-> FALSE]]

\* a cycle that collects its results in the array the state holds
HeldAliased(published, collected) == collected

\* this.state.lastCheckResults while the cycle pushes results: allResults is
\* a fresh local array of the cycle, the state holds the previous cycle's
Held(published, collected) == published

\* the guard at the entry of runCheck
GuardBlocksOpen(inProgress) == FALSE

GuardBlocks(inProgress) == inProgress

\* the branch runCheck takes on the cycle's failedCount
BranchIgnoresThreshold(fc, threshold) ==
  IF fc > 0 THEN "failure" ELSE "success"

Branch(fc, threshold) ==
  IF fc >= threshold THEN "failure"
  ELSE IF fc > 0 THEN "degradation"
  ELSE "success"

\* shouldSendAlert()
ShouldSendAlertAtBoundary(last, t, minutes) ==
  IF last = Null THEN TRUE
  ELSE (t - last) >= minutes * 60 * 1000

ShouldSendAlert(last, t, minutes) ==
  IF last = Null THEN TRUE
  ELSE (t - last) > minutes * 60 * 1000

\* handleFailure's shouldAlert
ShouldAlert(prev, last, t, minutes) ==
  prev # "failed" \/ ShouldSendAlert(last, t, minutes)

\* handleSuccess's condition for the recovery alert
RecoversFromAnyUnhealthy(prev) == prev # "healthy"

Recovers(prev) == prev = "failed"

\* handleDegradation's condition for the degradation alert
DegradesFromAny(prev) == TRUE

Degrades(prev) == prev = "healthy"

\* handleFailure: this.state.consecutiveFailures++
FailureCountStuck(count) == count

FailureCount(count) == count + 1

\* handleSuccess: this.state.consecutiveFailures = 0
SuccessCountKept(count) == count

SuccessCount(count) == 0

\* config.webhooks?.endpoints?.some(e => e.events.includes(ev))
HasEvent(eps, ev) == \E i \in DOMAIN eps : ev \in eps[i].events

\* the event kind handleDegradation puts in the payload
DegradationKind(eps) ==
  IF HasEvent(eps, "degradation") THEN "degradation" ELSE "warning"

\* the filter of sendAlert without the endpoint's enabled flag
ResolveListed(enabled, eps, ev) ==
  IF ~enabled THEN {}
  ELSE {i \in DOMAIN eps : ev \in eps[i].events}

\* AlertManager.sendAlert: the endpoints the payload is POSTed to
Resolve(enabled, eps, ev) ==
  IF ~enabled THEN {}
  ELSE {i \in DOMAIN eps : eps[i].enabled /\ ev \in eps[i].events}

\* subscription.fetchAndParse: the fetch, the status check or the base64
\* decoding throws
FetchThrows(body) == ~body.ok \/ ~body.base64

\* subscription.fetchAndParse: the nodes (by label) of the lines that start
\* with a supported scheme, in order
RECURSIVE ParseLines(_)
ParseLines(lines) ==
  IF lines = <<>> THEN <<>>
  ELSE (IF Head(lines).scheme \in SupportedSchemes
          THEN <<Head(lines).label>> ELSE <<>>) \o ParseLines(Tail(lines))

\* the node the for-of loop of runCheck yields at position i: the loop
\* iterates the array that was this.currentNodes when the loop was entered
NodeAtLive(iterated, current, i) ==
  IF i \in DOMAIN current THEN current[i] ELSE iterated[i]

NodeAt(iterated, current, i) == iterated[i]

\* XrayManager.stop(): the number of processes it terminates
KilledNone(process) == 0

Killed(process) == IF process = "alive" THEN 1 ELSE 0

\* checkVideo: the proxy arguments of the yt-dlp command
ProbeArgs(proxy) == IF proxy # NoProxy THEN <<"--proxy", proxy>> ELSE <<>>

\* ------------------------------------------------------------------- Init
Init ==
  /\ alertThreshold \in AlertThresholds
  /\ debounceMinutes \in DebounceChoices
  /\ \E webhooks \in WebhookConfigs :
       /\ webhooksEnabled = webhooks.enabled
       /\ endpoints = webhooks.endpoints
  /\ currentNodes \in NodeLists
  /\ isCheckInProgress = FALSE
  /\ call = NoCall
  /\ reply = NoReply
  /\ consecutiveFailures = 0
  /\ lastAlertSent = Null
  /\ currentState = "healthy"
  /\ totalChecks = 0
  /\ totalFailures = 0
  /\ lastCheckResults = <<>>
  /\ proxyEnabled = FALSE
  /\ proxyStatus = "unknown"
  /\ subscriptionUrl = (currentNodes # <<>>)
  /\ proxyLink = FALSE
  /\ refreshInterval = (currentNodes # <<>>)
  /\ metricsListening = TRUE
  /\ nodeLabel = NoLabel
  /\ now = 1
  /\ daemon = "init"
  /\ pc = "idle"
  /\ allResults = <<>>
  /\ nodeIdx = 0
  /\ proc = "none"
  /\ failedCount = 0
  /\ previousState = "healthy"
  /\ pendingEvent = "none"
  /\ analyzed = FALSE
  /\ decision = "none"
  /\ alertEvent = "none"
  /\ notified = {}
  /\ threw = FALSE
  /\ active = 0
  /\ invocations = 0
  /\ skippedTicks = 0
  /\ failedSinceRecovery = FALSE
  /\ zeroSinceDegradation = TRUE
  /\ lastErrorPostAt = Null
  /\ socksProxy = NoProxy
  /\ xrayManager = "undefined"
  /\ fetched = NoBody
  /\ shutdown = "none"
  /\ shutdownSteps = <<>>
  /\ cycleNodes = <<>>
  /\ timedOut = FALSE
  /\ engines = 0
  /\ refreshes = 0

\* ---------------------------------------------------------------- actions

\* a guard placed inside the try block, whose finally clears the flag
ClearedBySkip(inProgress) == FALSE

\* the flag after a skipped invocation: the guard returns before the try
\* block, so the finally block does not run
AfterSkip(inProgress) == inProgress

\* the finally block of runCheck
Finally ==
  /\ isCheckInProgress' = FALSE
  /\ active' = active - 1
  /\ pc' = "idle"
  /\ allResults' = <<>>
  /\ nodeIdx' = 0
  /\ proc' = "none"
  /\ cycleNodes' = <<>>
  /\ timedOut' = FALSE

\* the catch block of runCheck, followed by its finally block
CatchForgetsCount(failures) ==
  /\ totalFailures' = failures
  /\ threw' = TRUE
  /\ Finally

Catch(failures) ==
  /\ totalFailures' = failures + 1
  /\ threw' = TRUE
  /\ Finally

\* runCheck's direct branch: `if (this.xrayManager)`, true of every
\* XrayManager object whether or not its process was spawned or is alive
HasManager(manager) == manager # "undefined"

\* runCheck up to its first await: the guard, then the cycle's entry; in
\* the direct branch the proxy fields are set before checkAllVideos is awaited
RunCheck ==
  /\ invocations' = invocations + 1
  /\ UNCHANGED <<socksProxy, engines, environment, units, resources,
                 signals>>
  /\ IF GuardBlocks(isCheckInProgress)
       THEN /\ skippedTicks' = skippedTicks + 1
            /\ isCheckInProgress' = AfterSkip(isCheckInProgress)
            /\ UNCHANGED <<config, monitorState, proxyState, nodeLabel, now, pc,
                           locals, observed, history, active>>
       ELSE /\ isCheckInProgress' = TRUE
            /\ IF Len(currentNodes) = 0 /\ HasManager(xrayManager)
                 THEN proxyEnabled' = TRUE /\ proxyStatus' = "connected"
                 ELSE UNCHANGED proxyState
            /\ totalChecks' = totalChecks + 1
            /\ active' = active + 1
            /\ pc' = IF Len(currentNodes) > 0 THEN "node_start" ELSE "direct"
            /\ nodeIdx' = IF Len(currentNodes) > 0 THEN 1 ELSE 0
            /\ cycleNodes' = currentNodes
            /\ timedOut' = FALSE
            /\ allResults' = <<>>
            /\ proc' = "none"
            /\ failedCount' = 0
            /\ previousState' = currentState
            /\ pendingEvent' = "none"
            /\ analyzed' = FALSE
            /\ decision' = "none"
            /\ alertEvent' = "none"
            /\ notified' = {}
            /\ threw' = FALSE
            /\ UNCHANGED <<config, consecutiveFailures, lastAlertSent,
                           currentState, totalFailures, lastCheckResults,
                           nodeLabel, now, history, skippedTicks>>

\* start(): the first check is run at once and awaited
Start ==
  /\ daemon = "init"
  /\ daemon' = "first"
  /\ RunCheck

\* start(): once the first check has returned, the periodic timer is set
StartTimer ==
  /\ daemon = "first"
  /\ ~isCheckInProgress
  /\ daemon' = "running"
  /\ UNCHANGED <<config, isCheckInProgress, monitorState, nodeLabel, now, pc,
                 locals, observed, history, counters, socksProxy, engines,
                 lifecycle>>

\* a tick of the setInterval timer invokes runCheck
TimerTick ==
  /\ daemon = "running"
  /\ isCheckInProgress => skippedTicks < MaxSkips
  /\ ~isCheckInProgress => totalChecks < MaxCycles
  /\ UNCHANGED daemon
  /\ RunCheck

\* the clock advances
Tick ==
  /\ now < MaxTime
  /\ now' = now + 1
  /\ UNCHANGED <<config, isCheckInProgress, monitorState, nodeLabel, daemon,
                 pc, locals, observed, history, counters, socksProxy, engines,
                 lifecycle>>

\* a setter that keeps a label once one is set
SetNodeLabelOnce(current, label) == IF current = NoLabel THEN label ELSE current

\* VideoChecker.setNodeLabel: the label replaces the one held before
SetNodeLabel(current, label) == label

\* a loop body that probes whether or not the engine came up
AfterStartAlwaysProbes(outcome) == "node_probe"

\* per-node loop: steps [2] and [3] follow `await xrayManager.start()` inside
\* the try block, so they run only when start() returned; when it threw,
\* control passes through the catch block to the finally block
AfterStart(outcome) == IF outcome = "ready" THEN "node_probe" ELSE "node_stop"

\* per-node loop, steps [1] and [2]: a new XrayManager is started for the
\* node; when start() throws, the catch block synthesizes a failed result
\* for every video
NodeStart ==
  /\ pc = "node_start"
  /\ \E outcome \in {"ready", "parse_error", "not_ready", "exited"} :
       LET node == NodeAt(cycleNodes, currentNodes, nodeIdx) IN
       IF outcome = "ready"
         THEN /\ proc' = "alive"
              /\ engines' = engines + 1
              /\ socksProxy' = SocksEndpoint
              /\ nodeLabel' = SetNodeLabel(nodeLabel, node)
              /\ pc' = AfterStart(outcome)
              /\ UNCHANGED allResults
         ELSE /\ proc' = CASE outcome = "parse_error" -> "none"
                           [] outcome = "not_ready" -> "alive"
                           [] OTHER -> "exited"
              /\ engines' = IF outcome = "not_ready" THEN engines + 1
                            ELSE engines
              /\ allResults' = allResults \o SyntheticFailures(node)
              /\ pc' = AfterStart(outcome)
              /\ UNCHANGED <<nodeLabel, socksProxy>>
  /\ UNCHANGED <<config, isCheckInProgress, monitorState, now, daemon,
                 nodeIdx, failedCount, previousState, pendingEvent, observed,
                 history, counters, cycleNodes, timedOut, lifecycle>>

\* per-node loop, step [3]: every video is probed through the node's engine
\* (the engine may exit on its own meanwhile)
NodeProbe ==
  /\ pc = "node_probe"
  /\ \E outcome \in [DOMAIN Videos -> BOOLEAN], exits \in BOOLEAN :
       /\ allResults' = allResults \o ProbeResults(nodeLabel, outcome)
       /\ proc' = IF exits THEN "exited" ELSE "alive"
       /\ engines' = IF exits THEN engines - 1 ELSE engines
  /\ pc' = "node_stop"
  /\ timedOut' = FALSE
  /\ lastCheckResults' = Held(lastCheckResults, allResults')
  /\ UNCHANGED <<config, isCheckInProgress, consecutiveFailures,
                 lastAlertSent, currentState, totalChecks, totalFailures,
                 nodeLabel, now, daemon, nodeIdx, failedCount, previousState,
                 pendingEvent, observed, history, counters, socksProxy,
                 cycleNodes, lifecycle>>

\* a catch block that marks the monitor failed
AbortedAsFailed(state) == "failed"

\* the health state after the catch block of runCheck: the block logs and
\* counts the failure, and assigns nothing else
Aborted(state) == state

\* per-node loop, step [4]: the finally block stops the node's engine.
\* kill() on a process that has already terminated may throw; the exception
\* leaves the loop and is caught by the cycle's catch block
NodeStop ==
  /\ pc = "node_stop"
  /\ \E killThrows \in BOOLEAN :
       IF proc = "exited" /\ killThrows
         THEN /\ Catch(totalFailures)
              /\ currentState' = Aborted(currentState)
              /\ UNCHANGED <<consecutiveFailures, lastAlertSent,
                             totalChecks, lastCheckResults,
                             analyzed, decision, alertEvent, notified>>
              /\ UNCHANGED engines
         ELSE /\ proc' = "none"
              /\ engines' = engines - Killed(proc)
              /\ IF nodeIdx < Len(cycleNodes)
                   THEN /\ nodeIdx' = nodeIdx + 1
                        /\ pc' = "node_start"
                   ELSE /\ pc' = "analyze"
                        /\ UNCHANGED nodeIdx
              /\ UNCHANGED <<isCheckInProgress, monitorState, observed,
                             active, allResults, cycleNodes, timedOut>>
  /\ UNCHANGED <<config, nodeLabel, now, daemon, failedCount,
                 previousState, pendingEvent, history, invocations,
                 skippedTicks, socksProxy, lifecycle>>

\* the direct check when there are no nodes
Direct ==
  /\ pc = "direct"
  /\ \E outcome \in [DOMAIN Videos -> BOOLEAN] :
       allResults' = allResults \o ProbeResults(nodeLabel, outcome)
  /\ pc' = "analyze"
  /\ timedOut' = FALSE
  /\ UNCHANGED <<config, isCheckInProgress, monitorState, nodeLabel, now,
                 daemon, nodeIdx, proc, failedCount, previousState,
                 pendingEvent, observed, history, counters, socksProxy,
                 cycleNodes, engines, lifecycle>>

\* the alert branch of a handler, entered with the failures counted so far.
\* When the handler alerts and some endpoint lists the event, the payload is
\* built (Deno.hostname() may throw, which the cycle's catch block catches)
\* and the handler awaits sendAlert; otherwise the handler returns at once,
\* handleFailure having stamped lastAlertSent when it decided to alert
AlertBranch(alerts, kind, subscribed, failures, hostnameThrows) ==
  IF alerts /\ subscribed
    THEN IF hostnameThrows
           THEN /\ Catch(failures)
                /\ pendingEvent' = "none"
                /\ UNCHANGED lastAlertSent
           ELSE /\ totalFailures' = failures
                /\ pendingEvent' = kind
                /\ pc' = "alert"
                /\ UNCHANGED <<isCheckInProgress, active, threw,
                               lastAlertSent, allResults, nodeIdx, proc,
                               cycleNodes, timedOut>>
    ELSE /\ totalFailures' = failures
         /\ pendingEvent' = "none"
         /\ lastAlertSent' = IF alerts /\ kind = "error" THEN DateNow
                             ELSE lastAlertSent
         /\ UNCHANGED threw
         /\ Finally

\* what every handler records of the cycle that reached the state machine
Analyzed(fc) ==
  /\ lastCheckResults' = allResults
  /\ failedCount' = fc
  /\ previousState' = currentState
  /\ analyzed' = TRUE
  /\ UNCHANGED <<config, totalChecks, nodeLabel, now, daemon, alertEvent,
                 notified, lastErrorPostAt, invocations, skippedTicks,
                 socksProxy, engines, lifecycle>>

\* runCheck's analysis followed by handleFailure, up to its first await
HandleFailure ==
  /\ pc = "analyze"
  /\ LET fc == CountFailed(allResults)
         alerts == ShouldAlert(currentState, lastAlertSent, DateNow,
                               debounceMinutes)
     IN /\ Branch(fc, alertThreshold) = "failure"
        /\ Analyzed(fc)
        /\ consecutiveFailures' = FailureCount(consecutiveFailures)
        /\ currentState' = "failed"
        /\ decision' = IF alerts THEN "error" ELSE "none"
        /\ failedSinceRecovery' = TRUE
        /\ zeroSinceDegradation' = (zeroSinceDegradation \/ fc = 0)
        /\ \E hostnameThrows \in BOOLEAN :
             AlertBranch(alerts, "error", HasEvent(endpoints, "error"),
                         totalFailures + 1, hostnameThrows)

\* runCheck's analysis followed by handleDegradation, up to its first await
HandleDegradation ==
  /\ pc = "analyze"
  /\ LET fc == CountFailed(allResults)
         alerts == Degrades(currentState)
     IN /\ Branch(fc, alertThreshold) = "degradation"
        /\ Analyzed(fc)
        /\ currentState' = "degraded"
        /\ decision' = IF alerts THEN "degradation" ELSE "none"
        /\ zeroSinceDegradation' = (zeroSinceDegradation /\ ~alerts)
        /\ UNCHANGED <<consecutiveFailures, failedSinceRecovery>>
        /\ \E hostnameThrows \in BOOLEAN :
             AlertBranch(alerts, DegradationKind(endpoints),
                         HasEvent(endpoints, "degradation")
                           \/ HasEvent(endpoints, "warning"),
                         totalFailures, hostnameThrows)

\* runCheck's analysis followed by handleSuccess, up to its first await
HandleSuccess ==
  /\ pc = "analyze"
  /\ LET fc == CountFailed(allResults)
         alerts == Recovers(currentState)
     IN /\ Branch(fc, alertThreshold) = "success"
        /\ Analyzed(fc)
        /\ currentState' = "healthy"
        /\ consecutiveFailures' = SuccessCount(consecutiveFailures)
        /\ decision' = IF alerts THEN "recovery" ELSE "none"
        /\ failedSinceRecovery' = (failedSinceRecovery /\ ~alerts)
        /\ zeroSinceDegradation' = TRUE
        /\ \E hostnameThrows \in BOOLEAN :
             AlertBranch(alerts, "recovery", HasEvent(endpoints, "recovery"),
                         totalFailures, hostnameThrows)

\* AlertManager.sendAlert: the payload is POSTed to the resolved endpoints
SendAlert ==
  /\ pc = "alert"
  /\ alertEvent' = pendingEvent
  /\ notified' = Resolve(webhooksEnabled, endpoints, pendingEvent)
  /\ lastErrorPostAt' =
       IF pendingEvent = "error"
            /\ Resolve(webhooksEnabled, endpoints, pendingEvent) # {}
         THEN DateNow ELSE lastErrorPostAt
  /\ pc' = "alert_done"
  /\ UNCHANGED <<config, isCheckInProgress, monitorState, nodeLabel, now,
                 daemon, locals, analyzed, decision, threw,
                 failedSinceRecovery, zeroSinceDegradation, counters,
                 socksProxy, engines, lifecycle>>

\* sendAlert has returned: handleFailure stamps lastAlertSent, the handler
\* returns and the cycle's finally block runs
AlertReturn ==
  /\ pc = "alert_done"
  /\ lastAlertSent' = IF pendingEvent = "error" THEN DateNow ELSE lastAlertSent
  /\ pendingEvent' = "none"
  /\ Finally
  /\ UNCHANGED <<config, consecutiveFailures, currentState, totalChecks,
                 totalFailures, lastCheckResults, nodeLabel, now, daemon,
                 failedCount, previousState, observed, history, invocations,
                 skippedTicks, socksProxy, engines, lifecycle>>

Next ==
  \/ Start
  \/ StartTimer
  \/ TimerTick
  \/ Tick
  \/ NodeStart
  \/ NodeProbe
  \/ NodeStop
  \/ Direct
  \/ HandleFailure
  \/ HandleDegradation
  \/ HandleSuccess
  \/ SendAlert
  \/ AlertReturn

Spec == Init /\ [][Next]_vars

\* ------------------------------------------------- the daemon's life cycle

\* the state after construction, before start() has read the environment
InitDaemon ==
  /\ alertThreshold = 2
  /\ debounceMinutes \in DebounceChoices
  /\ webhooksEnabled = TRUE
  /\ endpoints = AllEvents
  /\ \E env \in Environments :
       /\ subscriptionUrl = env.subscriptionUrl
       /\ proxyLink = env.proxyLink
  /\ currentNodes = <<>>
  /\ isCheckInProgress = FALSE
  /\ call = NoCall
  /\ reply = NoReply
  /\ consecutiveFailures = 0
  /\ lastAlertSent = Null
  /\ currentState = "healthy"
  /\ totalChecks = 0
  /\ totalFailures = 0
  /\ lastCheckResults = <<>>
  /\ proxyEnabled = FALSE
  /\ proxyStatus = "unknown"
  /\ refreshInterval = FALSE
  /\ metricsListening = FALSE
  /\ nodeLabel = NoLabel
  /\ socksProxy = NoProxy
  /\ xrayManager = "undefined"
  /\ now = 1
  /\ daemon = "boot"
  /\ pc = "idle"
  /\ allResults = <<>>
  /\ nodeIdx = 0
  /\ proc = "none"
  /\ failedCount = 0
  /\ previousState = "healthy"
  /\ pendingEvent = "none"
  /\ cycleNodes = <<>>
  /\ timedOut = FALSE
  /\ analyzed = FALSE
  /\ decision = "none"
  /\ alertEvent = "none"
  /\ notified = {}
  /\ threw = FALSE
  /\ active = 0
  /\ invocations = 0
  /\ skippedTicks = 0
  /\ failedSinceRecovery = FALSE
  /\ zeroSinceDegradation = TRUE
  /\ lastErrorPostAt = Null
  /\ fetched = NoBody
  /\ shutdown = "none"
  /\ shutdownSteps = <<>>
  /\ engines = 0
  /\ refreshes = 0

\* what the start-up steps of start() leave alone
StartFrame ==
  UNCHANGED <<alertThreshold, debounceMinutes, webhooksEnabled, endpoints,
              environment, units, isCheckInProgress, monitorState, nodeLabel, now,
              pc, locals, observed, history, counters, fetched, refreshes,
              signals>>

\* a start() that schedules the refresh after its try block
ScheduledAfterTry(fetchThrew) == TRUE

\* start(): startPeriodicRefresh is called inside the try block, after the
\* awaited fetchAndParse(), so it is skipped when the fetch throws
Scheduled(fetchThrew) == ~fetchThrew

\* start() with SUBSCRIPTION_URL: the nodes are fetched and, when the fetch
\* succeeded, the periodic refresh is started; then the metrics server starts
StartSubscription ==
  /\ daemon = "boot"
  /\ subscriptionUrl
  /\ \E body \in StartupBodies :
       IF FetchThrows(body)
         THEN /\ refreshInterval' = Scheduled(TRUE)
              /\ UNCHANGED currentNodes
         ELSE /\ currentNodes' = ParseLines(body.lines)
              /\ refreshInterval' = Scheduled(FALSE)
  /\ metricsListening' = TRUE
  /\ daemon' = "init"
  /\ UNCHANGED <<xrayManager, socksProxy, engines, proxyState>>
  /\ StartFrame

\* start() with PROXY_LINK only: the persistent engine is started and, when
\* start() returned, the checker is pointed at its SOCKS endpoint, the
\* connection is tested and the proxy fields of the state are set; a start
\* that throws is logged and start() goes on, this.xrayManager keeping the
\* manager it was assigned; then the metrics server starts
StartProxy ==
  /\ daemon = "boot"
  /\ ~subscriptionUrl
  /\ proxyLink
  /\ \E outcome \in {"ready", "parse_error", "not_ready", "exited"} :
       /\ xrayManager' = CASE outcome = "parse_error" -> "none"
                           [] outcome = "exited" -> "exited"
                           [] OTHER -> "alive"
       /\ engines' = IF outcome \in {"ready", "not_ready"} THEN engines + 1
                     ELSE engines
       /\ socksProxy' = IF outcome = "ready" THEN SocksEndpoint
                        ELSE socksProxy
       /\ IF outcome = "ready"
            THEN \E connected \in BOOLEAN :
                   /\ proxyEnabled' = TRUE
                   /\ proxyStatus' = IF connected THEN "connected"
                                     ELSE "disconnected"
            ELSE UNCHANGED proxyState
  /\ metricsListening' = TRUE
  /\ daemon' = "init"
  /\ UNCHANGED <<currentNodes, refreshInterval>>
  /\ StartFrame

\* start() with neither variable set: only the metrics server starts
StartDirect ==
  /\ daemon = "boot"
  /\ ~subscriptionUrl
  /\ ~proxyLink
  /\ metricsListening' = TRUE
  /\ daemon' = "init"
  /\ UNCHANGED <<currentNodes, refreshInterval, xrayManager, socksProxy,
                 engines, proxyState>>
  /\ StartFrame

\* the persistent engine process exits on its own
XrayExits ==
  /\ xrayManager = "alive"
  /\ shutdown = "none"
  /\ xrayManager' = "exited"
  /\ engines' = engines - 1
  /\ UNCHANGED <<config, environment, units, proxyState, isCheckInProgress, monitorState,
                 nodeLabel, socksProxy, now, daemon, pc, locals, observed,
                 history, counters, refreshInterval, fetched,
                 metricsListening, refreshes, signals>>

\* the refresh timer fires: the subscription is fetched
RefreshFetch ==
  /\ refreshInterval
  /\ fetched = NoBody
  /\ refreshes < MaxRefreshes
  /\ fetched' \in RefreshBodies
  /\ refreshes' = refreshes + 1
  /\ UNCHANGED <<config, environment, units, proxyState, isCheckInProgress, monitorState,
                 nodeLabel, socksProxy, now, daemon, pc, locals, observed,
                 history, counters, engines, xrayManager, refreshInterval,
                 metricsListening, signals>>

\* the response of the refresh is decoded and parsed; unless that throws,
\* the callback replaces this.currentNodes
RefreshDone ==
  /\ fetched # NoBody
  /\ fetched' = NoBody
  /\ currentNodes' = IF FetchThrows(fetched) THEN currentNodes
                     ELSE ParseLines(fetched.lines)
  /\ UNCHANGED <<alertThreshold, debounceMinutes, webhooksEnabled, endpoints,
                 environment, units, proxyState, isCheckInProgress, monitorState, nodeLabel,
                 socksProxy, now, daemon, pc, locals, observed, history,
                 counters, engines, xrayManager, refreshInterval,
                 metricsListening, refreshes, signals>>

\* checkVideo's timer fires while yt-dlp is still running: a warning is
\* logged
ProbeTimeout ==
  /\ pc \in {"node_probe", "direct"}
  /\ ~timedOut
  /\ timedOut' = TRUE
  /\ UNCHANGED <<config, isCheckInProgress, monitorState, nodeLabel,
                 socksProxy, now, daemon, pc, allResults, nodeIdx, proc,
                 failedCount, previousState, pendingEvent, cycleNodes,
                 observed, history, counters, engines, lifecycle>>

\* the process ends: the program's memory is gone; the engine processes it
\* left behind, the clock and the record of the handler's steps remain
Halt ==
  /\ pc' = "halted"
  /\ daemon' = "stopping"
  /\ currentNodes' = <<>>
  /\ isCheckInProgress' = FALSE
  /\ consecutiveFailures' = 0
  /\ lastAlertSent' = Null
  /\ currentState' = "healthy"
  /\ totalChecks' = 0
  /\ totalFailures' = 0
  /\ lastCheckResults' = <<>>
  /\ nodeLabel' = NoLabel
  /\ socksProxy' = NoProxy
  /\ allResults' = <<>>
  /\ nodeIdx' = 0
  /\ proc' = "none"
  /\ failedCount' = 0
  /\ previousState' = "healthy"
  /\ pendingEvent' = "none"
  /\ cycleNodes' = <<>>
  /\ timedOut' = FALSE
  /\ analyzed' = FALSE
  /\ decision' = "none"
  /\ alertEvent' = "none"
  /\ notified' = {}
  /\ threw' = FALSE
  /\ active' = 0
  /\ invocations' = 0
  /\ skippedTicks' = 0
  /\ failedSinceRecovery' = FALSE
  /\ zeroSinceDegradation' = TRUE
  /\ lastErrorPostAt' = Null
  /\ refreshInterval' = FALSE
  /\ fetched' = NoBody
  /\ refreshes' = 0
  /\ proxyEnabled' = FALSE
  /\ proxyStatus' = "unknown"
  /\ UNCHANGED <<alertThreshold, debounceMinutes, webhooksEnabled, endpoints,
                 environment, units, now>>

\* the end of the shutdown handler: the metrics listener is aborted and
\* Deno.exit(0) is called
ShutdownFinish(steps) ==
  /\ metricsListening' = FALSE
  /\ shutdownSteps' = steps \o <<"metrics", "exit">>
  /\ shutdown' = "exited"
  /\ Halt

\* a shutdown signal: the handler clears the check timer, stops the refresh
\* timer and calls stop() on the persistent engine, if there is one. When a
\* process was spawned stop() signals it and the handler awaits its exit;
\* kill() on a terminated process may throw, and the handler's rejection,
\* which nothing handles, ends the process. Otherwise the handler runs to its
\* end without yielding to another task
Shutdown ==
  /\ daemon = "running"
  /\ shutdown = "none"
  /\ LET cleared == <<"timer">> \o (IF subscriptionUrl THEN <<"refresh">>
                                    ELSE <<>>)
     IN IF xrayManager \in {"undefined", "none"}
          THEN /\ ShutdownFinish(cleared)
               /\ UNCHANGED <<xrayManager, engines>>
          ELSE \E killThrows \in BOOLEAN :
                 IF xrayManager = "exited" /\ killThrows
                   THEN /\ shutdownSteps' = cleared
                        /\ shutdown' = "crashed"
                        /\ Halt
                        /\ UNCHANGED <<xrayManager, engines,
                                       metricsListening>>
                   ELSE /\ shutdownSteps' = cleared \o <<"engine">>
                        /\ shutdown' = "xray_stop"
                        /\ daemon' = "stopping"
                        /\ refreshInterval' = FALSE
                        /\ engines' = engines - Killed(xrayManager)
                        /\ xrayManager' = "exited"
                        /\ UNCHANGED <<config, environment, units, proxyState,
                                       isCheckInProgress, monitorState,
                                       nodeLabel, socksProxy, now, pc,
                                       locals, observed, history, counters,
                                       fetched, metricsListening, refreshes>>

\* the persistent engine has exited: the handler runs to its end
ShutdownExit ==
  /\ shutdown = "xray_stop"
  /\ ShutdownFinish(shutdownSteps)
  /\ UNCHANGED <<xrayManager, engines>>

\* the daemon from construction to exit. The wall clock stands still in this
\* specification: only the debounce of error alerts reads it
NextDaemon ==
  \/ Start
  \/ StartTimer
  \/ TimerTick
  \/ NodeStart
  \/ NodeProbe
  \/ NodeStop
  \/ Direct
  \/ HandleFailure
  \/ HandleDegradation
  \/ HandleSuccess
  \/ SendAlert
  \/ AlertReturn
  \/ StartSubscription
  \/ StartProxy
  \/ StartDirect
  \/ XrayExits
  \/ RefreshFetch
  \/ RefreshDone
  \/ ProbeTimeout
  \/ Shutdown
  \/ ShutdownExit

SpecDaemon == InitDaemon /\ [][NextDaemon]_vars

\* ------------------------------------------- operations served to a caller

\* the webhook configurations handed to AlertManager: two endpoints, each
\* enabled or not and subscribed to one of these event sets
EventSets == {{}, {"error"}, {"error", "recovery"}, Events}
DispatchConfigs ==
  [enabled : BOOLEAN,
   endpoints : [1..2 -> [enabled : BOOLEAN, events : EventSets]]]

\* AlertManager.sendToEndpoint: one POST to the endpoint; the promise is
\* rejected when the response is not ok, the fetch fails or the 10 s abort
\* signal fires, and fulfilled otherwise
SendToEndpoint(i, failing) ==
  [posts |-> 1, outcome |-> IF i \in failing THEN "rejected" ELSE "fulfilled"]

\* a wait that rejects as soon as one delivery is rejected
AwaitAll(results) ==
  IF \E i \in DOMAIN results : results[i].outcome = "rejected"
  THEN "raised" ELSE "returned"

\* the wait for the deliveries: Promise.allSettled never rejects
AwaitAllSettled(results) == "returned"

\* AlertManager.sendAlert(payload) with the deliveries in `failing` failing:
\* the POSTs made to each configured endpoint, and how the call ends
SendAlertTo(enabled, eps, ev, failing) ==
  LET resolved == Resolve(enabled, eps, ev)
      results == [i \in resolved |-> SendToEndpoint(i, failing)]
  IN  IF resolved = {}
      THEN [op |-> "sendAlert", posts |-> [i \in DOMAIN eps |-> 0],
            rejected |-> {}, outcome |-> "returned"]
      ELSE [op |-> "sendAlert",
            posts |-> [i \in DOMAIN eps |->
                         IF i \in resolved THEN results[i].posts ELSE 0],
            rejected |-> {i \in resolved : results[i].outcome = "rejected"},
            outcome |-> AwaitAllSettled(results)]

\* a caller hands a payload of some kind to AlertManager.sendAlert
CallSendAlert ==
  /\ call = NoCall
  /\ \E webhooks \in DispatchConfigs, ev \in Events,
        failing \in SUBSET (1..2) :
       /\ call' = [op |-> "sendAlert", enabled |-> webhooks.enabled,
                   endpoints |-> webhooks.endpoints, event |-> ev,
                   failing |-> failing]
       /\ reply' = SendAlertTo(webhooks.enabled, webhooks.endpoints, ev,
                               failing)
  /\ UNCHANGED <<config, isCheckInProgress, monitorState, nodeLabel,
                 socksProxy, now, daemon, pc, locals, observed, history,
                 counters, engines, environment, proxyState, resources, signals>>

\* what the external tool does in one probe: it exits with code 0, exits
\* with another code, or cannot be spawned (command.output() throws)
ToolOutcomes == {"exit0", "nonzero", "spawn_failed"}
\* lists of configured videos, by id
VideoLists == {<<"v1", "v2">>, <<"v2", "v1">>}

\* a checkVideo whose catch block rethrows
CheckVideoRethrows(videoId, label, tool) ==
  IF tool = "spawn_failed"
  THEN [outcome |-> "raised"]
  ELSE [outcome |-> "returned",
        result |-> [node_label |-> label, video_id |-> videoId,
                    success |-> (tool = "exit0")]]

\* VideoChecker.checkVideo: the promise it returns, for each outcome of the
\* tool; the catch block turns an exception into a failed result
CheckVideo(videoId, label, tool) ==
  [outcome |-> "returned",
   result |-> [node_label |-> label, video_id |-> videoId,
               success |-> (tool = "exit0")]]

\* VideoChecker.checkAllVideos: Promise.all over config.videos.map(checkVideo)
CheckAllVideos(videos, label, tools) ==
  LET promises == [i \in DOMAIN videos |-> CheckVideo(videos[i], label, tools[i])]
  IN  IF \E i \in DOMAIN promises : promises[i].outcome = "raised"
      THEN [op |-> "checkAllVideos", outcome |-> "raised", results |-> <<>>]
      ELSE [op |-> "checkAllVideos", outcome |-> "returned",
            results |-> [i \in DOMAIN promises |-> promises[i].result]]

\* a caller probes every configured video through the checker
CallCheckAllVideos ==
  /\ call = NoCall
  /\ \E videos \in VideoLists, label \in {NoLabel, "A"} :
       \E tools \in [DOMAIN videos -> ToolOutcomes] :
         /\ call' = [op |-> "checkAllVideos", videos |-> videos,
                     nodeLabel |-> label, tools |-> tools]
         /\ reply' = CheckAllVideos(videos, label, tools)
  /\ UNCHANGED <<config, isCheckInProgress, monitorState, nodeLabel,
                 socksProxy, now, daemon, pc, locals, observed, history,
                 counters, engines, environment, proxyState, resources, signals>>

\* the node labels of a cycle over three nodes; two nodes of a subscription
\* may carry the same label
LabelLists == {<<"A", "B", "C">>, <<"A", "B", "A">>}
ThreeVideos == <<"v1", "v2", "v3">>

\* result.node_label || "direct"
GroupLabel(result) ==
  IF result.node_label = NoLabel THEN "direct" ELSE result.node_label

\* the keys of nodeGroups, in insertion order
RECURSIVE GroupKeys(_, _)
GroupKeys(details, seen) ==
  IF details = <<>> THEN seen
  ELSE LET key == GroupLabel(Head(details))
       IN  GroupKeys(Tail(details),
                     IF \E k \in DOMAIN seen : seen[k] = key
                     THEN seen ELSE Append(seen, key))

\* nodeGroups.get(key)
Group(details, key) ==
  SelectSeq(details, LAMBDA r : GroupLabel(r) = key)

\* AlertManager.createSimplifiedPayload: failing_nodes, one summary for
\* every group with at least one failed result
FailingNodes(details) ==
  LET keys == GroupKeys(details, <<>>)
      summaries == [k \in DOMAIN keys |->
                      [node |-> keys[k],
                       failed |-> CountFailed(Group(details, keys[k])),
                       total |-> Len(Group(details, keys[k]))]]
  IN  SelectSeq(summaries, LAMBDA n : n.failed > 0)

\* AlertManager.createSimplifiedPayload: the breakdown and the summary
CreateSimplifiedPayload(details, failedVideos) ==
  [op |-> "createSimplifiedPayload",
   failing_nodes |-> FailingNodes(details),
   total_nodes_checked |-> Len(GroupKeys(details, <<>>)),
   total_nodes_failed |-> Len(FailingNodes(details)),
   total_videos_failed |-> failedVideos,
   total_videos_checked |-> Len(details)]

\* the results runCheck collects over the nodes, in node order
RECURSIVE Collect(_, _, _)
Collect(labels, successes, i) ==
  IF i > Len(labels) THEN <<>>
  ELSE [v \in DOMAIN ThreeVideos |->
          [node_label |-> labels[i], video_id |-> ThreeVideos[v],
           success |-> successes[i][v]]]
       \o Collect(labels, successes, i + 1)

\* the state machine hands the results of a cycle over three nodes and
\* three videos to the alert manager
CallCreateSimplifiedPayload ==
  /\ call = NoCall
  /\ \E labels \in LabelLists :
       \E successes \in [DOMAIN labels -> [DOMAIN ThreeVideos -> BOOLEAN]] :
         LET details == Collect(labels, successes, 1)
         IN  /\ call' = [op |-> "createSimplifiedPayload", labels |-> labels,
                         details |-> details,
                         failed_videos |-> CountFailed(details)]
             /\ reply' = CreateSimplifiedPayload(details, CountFailed(details))
  /\ UNCHANGED <<config, isCheckInProgress, monitorState, nodeLabel,
                 socksProxy, now, daemon, pc, locals, observed, history,
                 counters, engines, environment, proxyState, resources, signals>>

\* what happens in start() before the wait: generateConfig throws on the
\* link, writing the config or spawning xray throws, or xray is spawned
Launches == {"parse_error", "spawn_failed", "spawned"}
\* the connect attempts (by number) that the SOCKS port would accept: never,
\* or from some attempt on
Acceptances ==
  {{}} \cup {k..(MaxAttempts + 2) : k \in 1..(MaxAttempts + 2)}

\* a loop that goes round once more
RetryOnceMore(attempts) == attempts <= MaxAttempts

\* XrayManager.waitForReady: the loop condition
Retry(attempts) == attempts < MaxAttempts

\* XrayManager.waitForReady, after `attempts` refused connects: a connect
\* that succeeds returns, a refused one sleeps 100 ms and counts
RECURSIVE WaitForReady(_, _)
WaitForReady(accepting, attempts) ==
  IF Retry(attempts)
  THEN IF (attempts + 1) \in accepting
       THEN [outcome |-> "returned", refused |-> attempts, connected |-> TRUE]
       ELSE WaitForReady(accepting, attempts + 1)
  ELSE [outcome |-> "raised", refused |-> attempts, connected |-> FALSE]

\* XrayManager.start: whatever is thrown inside the try block is logged and
\* rethrown
XrayStart(launch, accepting) ==
  IF launch # "spawned"
  THEN [op |-> "start", outcome |-> "raised", spawned |-> FALSE,
        refused |-> 0, connected |-> FALSE]
  ELSE LET ready == WaitForReady(accepting, 0)
       IN  [op |-> "start", outcome |-> ready.outcome, spawned |-> TRUE,
            refused |-> ready.refused, connected |-> ready.connected]

\* a caller starts an engine
CallStart ==
  /\ call = NoCall
  /\ \E launch \in Launches, accepting \in Acceptances :
       /\ call' = [op |-> "start", launch |-> launch,
                   accepting |-> accepting]
       /\ reply' = XrayStart(launch, accepting)
  /\ UNCHANGED <<config, isCheckInProgress, monitorState, nodeLabel,
                 socksProxy, now, daemon, pc, locals, observed, history,
                 counters, engines, environment, proxyState, resources, signals>>

\* config.metrics.path
MetricsPath == "/metrics"
JsonPath == "/metrics/json"
\* the pathnames of the requests
Pathnames == {MetricsPath, JsonPath, "/health", "/"}

\* A string that may contain colons is the sequence of its colon-free parts:
\* "pw" is <<"pw">> and "pw:x" is <<"pw", "x">>.
\* METRICS_USERNAME and METRICS_PASSWORD: not set, or a user name and a
\* password
NoCredentials == [username |-> "", password |-> <<>>]
Credentials ==
  {NoCredentials,
   [username |-> "admin", password |-> <<"pw">>],
   [username |-> "admin", password |-> <<"pw", "x">>]}

\* the decoded credentials of a Basic header: "user:password"
UserPass ==
  UNION {[1..n -> {"admin", "pw", "x"}] : n \in 1..3}
\* the Authorization header of a request: none, another scheme, Basic with
\* text that is not base64, or Basic with encoded credentials
NoHeader == [scheme |-> "none"]
AuthorizationHeaders ==
  {NoHeader, [scheme |-> "Bearer"], [scheme |-> "Basic", base64 |-> FALSE]}
    \cup [scheme : {"Basic"}, base64 : {TRUE}, credentials : UserPass]

\* this.authEnabled
AuthEnabled(credentials) ==
  credentials.username # "" /\ credentials.password # <<>>

\* credentials.split(":")
Split(text) == [k \in DOMAIN text |-> <<text[k]>>]

\* the Basic Auth gate of the handler: the request passes, is answered 401,
\* or atob throws
Gate(credentials, header) ==
  IF header.scheme # "Basic" THEN "unauthorized"
  ELSE IF ~header.base64 THEN "throws"
  ELSE LET parts == Split(header.credentials)
           username == parts[1]
           password == IF Len(parts) >= 2 THEN parts[2] ELSE <<>>
       IN  IF username # <<credentials.username>>
              \/ password # credentials.password
           THEN "unauthorized" ELSE "pass"

\* getMetrics: successRate, as the fraction successfulChecks / totalChecks
\* (0 when no check has been counted)
SuccessRate(total, failed) ==
  IF total > 0
  THEN [numerator |-> total - failed, denominator |-> total]
  ELSE [numerator |-> 0, denominator |-> 1]

\* MetricsServer.getMetrics: the snapshot of the state
GetMetrics(status, total, failed, results) ==
  [status |-> status,
   checks |-> [total |-> total, successful |-> total - failed,
               failed |-> failed,
               success_rate |-> SuccessRate(total, failed)],
   videos |-> {results[k].video_id : k \in DOMAIN results}]

\* MetricsServer.getPrometheusMetrics: the exposition of the snapshot
GetPrometheusMetrics(status, total, failed, results) ==
  [youtube_monitor_up |-> 1,
   youtube_check_success |->
     [k \in DOMAIN results |->
        [node |-> GroupLabel(results[k]), video_id |-> results[k].video_id,
         value |-> IF results[k].success THEN 1 ELSE 0]],
   youtube_checks_total |-> total,
   youtube_check_failures_total |-> failed,
   youtube_check_success_rate |-> SuccessRate(total, failed),
   youtube_monitor_status |->
     IF status = "healthy" THEN 0 ELSE IF status = "degraded" THEN 1 ELSE 2]

\* the request handler of MetricsServer.start; an exception of the handler
\* is answered 500 by the server
Handler(credentials, pathname, header) ==
  LET gated == AuthEnabled(credentials) /\ pathname \in {MetricsPath, JsonPath}
      gate == IF gated THEN Gate(credentials, header) ELSE "pass"
  IN  IF pathname = "/health"
      THEN [op |-> "request", status |-> 200, challenge |-> FALSE,
            body |-> "health"]
      ELSE IF gate = "unauthorized"
      THEN [op |-> "request", status |-> 401, challenge |-> TRUE,
            body |-> "Unauthorized"]
      ELSE IF gate = "throws"
      THEN [op |-> "request", status |-> 500, challenge |-> FALSE,
            body |-> "Internal Server Error"]
      ELSE IF pathname = MetricsPath
      THEN [op |-> "request", status |-> 200, challenge |-> FALSE,
            body |-> GetPrometheusMetrics(currentState, totalChecks,
                                          totalFailures, lastCheckResults)]
      ELSE IF pathname = JsonPath
      THEN [op |-> "request", status |-> 200, challenge |-> FALSE,
            body |-> GetMetrics(currentState, totalChecks, totalFailures,
                                lastCheckResults)]
      ELSE [op |-> "request", status |-> 404, challenge |-> FALSE,
            body |-> "Not Found"]

\* a loop over the results that consumes them
Drained(results) == <<>>

\* this.state.lastCheckResults after the for-of loops of getMetrics and
\* getPrometheusMetrics have gone over it
Iterated(results) == results

\* the metrics server answers one request out of `requests`; the handler is
\* synchronous
Serve(requests) ==
  /\ call = NoCall
  /\ \E request \in requests :
       /\ call' = [op |-> "request"] @@ request
       /\ reply' = Handler(request.credentials, request.pathname,
                           request.authorization)
  /\ lastCheckResults' = Iterated(lastCheckResults)
  /\ UNCHANGED <<config, isCheckInProgress, consecutiveFailures,
                 lastAlertSent, currentState, totalChecks, totalFailures,
                 nodeLabel, socksProxy, now, daemon, pc, locals, observed,
                 history, counters, engines, environment, proxyState, resources, signals>>

\* any request, with any Authorization header, under any configuration of
\* the credentials
Requests ==
  [credentials : Credentials, pathname : Pathnames,
   authorization : AuthorizationHeaders]

CallHandler == Serve(Requests)

\* a scrape of the metrics, as text or as JSON, with no credentials
\* configured
ScrapeRequests ==
  [credentials : {NoCredentials}, pathname : {MetricsPath, JsonPath},
   authorization : {NoHeader}]

\* the metrics server answers a scrape while the daemon runs
Scrape ==
  /\ metricsListening
  /\ Serve(ScrapeRequests)

\* a value that is undefined, and the number NaN
Undefined == "undefined"
NaN == -1

\* the port of a link: none, digits, or text that is not a number (new URL
\* throws on it)
Ports == {"", "443", "abc"}
\* the security and type query values of a link ("" when absent)
Securities == {"", "none", "tls", "reality"}
Types == {"", "tcp", "ws", "grpc", "http", "h2"}
\* the userinfo of a shadowsocks link: base64 of "method:password", base64
\* of text without a colon, empty, or text that is not base64
SsUserinfos ==
  { [base64 |-> TRUE, text |-> <<"aes-256-gcm", "pw">>],
    [base64 |-> TRUE, text |-> <<"aes-256-gcm">>],
    [base64 |-> TRUE, text |-> <<"">>],
    [base64 |-> FALSE, text |-> <<>>] }
\* what follows vmess:// : text that is not base64, base64 of text that is
\* not JSON, or base64 of a JSON object with or without its fields
VmessPayloads ==
  { [base64 |-> FALSE, json |-> FALSE], [base64 |-> TRUE, json |-> FALSE] }
    \cup [base64 : {TRUE}, json : {TRUE}, add : {Undefined, "host"},
          id : {Undefined, "uuid"}, port : {Undefined, "443"},
          net : {Undefined, "ws"}, tls : {Undefined, "tls"}]

\* proxy links, by the parts the parser reads
Links ==
  [scheme : {"vless", "trojan", "http", "hysteria2"}, username : {"", "cred"},
   hostname : {"host"}, port : Ports, security : Securities, type : Types]
  \cup [scheme : {"ss", "shadowsocks"}, userinfo : SsUserinfos,
        hostname : {"host"}, port : Ports]
  \cup [scheme : {"vmess"}, payload : VmessPayloads, port : {""}]

\* parseInt
ParseInt(text) ==
  IF text = "443" THEN 443 ELSE NaN

NoOutbound == [protocol |-> "none"]
Raised(error) ==
  [op |-> "parseProxyLink", outcome |-> "raised", error |-> error,
   outbound |-> NoOutbound]
Returned(outbound) ==
  [op |-> "parseProxyLink", outcome |-> "returned", error |-> "none",
   outbound |-> outbound]

\* XrayManager.parseVless
ParseVless(url) ==
  LET type == IF url.type # "" THEN url.type ELSE "tcp"
      security == IF url.security # "" THEN url.security ELSE "none"
  IN  Returned(
        [protocol |-> "vless", address |-> url.hostname,
         port |-> ParseInt(url.port), credential |-> url.username,
         network |-> type, security |-> security,
         settings |->
           (IF security = "tls" THEN {"tlsSettings"}
            ELSE IF security = "reality" THEN {"realitySettings"} ELSE {})
           \cup
           (IF type = "ws" THEN {"wsSettings"}
            ELSE IF type = "grpc" THEN {"grpcSettings"}
            ELSE IF type \in {"http", "h2"} THEN {"httpSettings"} ELSE {})])

\* XrayManager.parseVmess
ParseVmess(payload) ==
  IF ~payload.base64 THEN Raised("InvalidCharacterError")
  ELSE IF ~payload.json THEN Raised("SyntaxError")
  ELSE Returned(
         [protocol |-> "vmess", address |-> payload.add,
          port |-> IF payload.port = Undefined THEN NaN
                   ELSE ParseInt(payload.port),
          credential |-> payload.id,
          network |-> IF payload.net # Undefined THEN payload.net ELSE "tcp",
          security |-> IF payload.tls = "tls" THEN "tls" ELSE "none",
          settings |->
            (IF payload.net = "ws" THEN {"wsSettings"} ELSE {})
            \cup (IF payload.tls = "tls" THEN {"tlsSettings"} ELSE {})])

\* XrayManager.parseTrojan
ParseTrojan(url) ==
  Returned(
    [protocol |-> "trojan", address |-> url.hostname,
     port |-> ParseInt(url.port), credential |-> url.username,
     network |-> IF url.type # "" THEN url.type ELSE "tcp",
     security |-> IF url.security # "" THEN url.security ELSE "tls",
     settings |-> {"tlsSettings"}])

\* XrayManager.parseShadowsocks
ParseShadowsocks(url) ==
  IF ~url.userinfo.base64 THEN Raised("InvalidCharacterError")
  ELSE LET parts == url.userinfo.text
       IN  Returned(
             [protocol |-> "shadowsocks", address |-> url.hostname,
              port |-> ParseInt(url.port), method |-> parts[1],
              credential |-> IF Len(parts) >= 2 THEN parts[2] ELSE Undefined])

\* a switch whose default case parses the link as vless
ParseAsVless(url) == ParseVless(url)

\* the default case of the switch in parseProxyLink
ParseDefault(url) == Raised("Unsupported protocol")

\* XrayManager.parseProxyLink
ParseProxyLink(link) ==
  IF link.port = "abc" THEN Raised("Invalid URL")
  ELSE IF link.scheme = "vless" THEN ParseVless(link)
  ELSE IF link.scheme = "vmess" THEN ParseVmess(link.payload)
  ELSE IF link.scheme = "trojan" THEN ParseTrojan(link)
  ELSE IF link.scheme \in {"shadowsocks", "ss"} THEN ParseShadowsocks(link)
  ELSE ParseDefault(link)

\* a caller has a proxy link parsed
CallParseProxyLink ==
  /\ call = NoCall
  /\ \E link \in Links :
       /\ call' = [op |-> "parseProxyLink", link |-> link]
       /\ reply' = ParseProxyLink(link)
  /\ UNCHANGED <<config, isCheckInProgress, monitorState, nodeLabel,
                 socksProxy, now, daemon, pc, locals, observed, history,
                 counters, engines, environment, proxyState, resources, signals>>

\* the caller has its answer
Return ==
  /\ call # NoCall
  /\ call' = NoCall
  /\ reply' = NoReply
  /\ UNCHANGED <<config, isCheckInProgress, monitorState, nodeLabel,
                 socksProxy, now, daemon, pc, locals, observed, history,
                 counters, engines, environment, proxyState, resources, signals>>

\* the program's functions, called on their own before the daemon starts
InitUnits == InitDaemon /\ ~subscriptionUrl /\ ~proxyLink

NextUnits ==
  \/ CallSendAlert
  \/ CallCheckAllVideos
  \/ CallCreateSimplifiedPayload
  \/ CallStart
  \/ CallHandler
  \/ CallParseProxyLink
  \/ Return

SpecUnits == InitUnits /\ [][NextUnits]_vars

\* the daemon without a subscription, probing directly, with its metrics
\* server answering scrapes at any moment
InitMetrics ==
  /\ Init
  /\ currentNodes = <<>>
  /\ webhooksEnabled
  /\ endpoints = AllEvents

NextMetrics ==
  \/ Start
  \/ StartTimer
  \/ TimerTick
  \/ Tick
  \/ Direct
  \/ HandleFailure
  \/ HandleDegradation
  \/ HandleSuccess
  \/ SendAlert
  \/ AlertReturn
  \/ Scrape
  \/ Return

SpecMetrics == InitMetrics /\ [][NextMetrics]_vars

TypeOK ==
  /\ currentState \in HealthStates
  /\ totalChecks \in 0..MaxCycles
  /\ pc \in {"idle", "node_start", "node_probe", "node_stop", "direct",
             "analyze", "alert", "alert_done", "halted"}
  /\ proc \in {"none", "alive", "exited"}
  /\ pendingEvent \in Events \cup {"none"}
  /\ daemon \in {"boot", "init", "first", "running", "stopping"}
  /\ xrayManager \in {"undefined", "none", "alive", "exited"}
  /\ socksProxy \in {NoProxy, SocksEndpoint}
  /\ proxyEnabled \in BOOLEAN
  /\ proxyStatus \in {"unknown", "connected", "disconnected"}
  /\ shutdown \in {"none", "xray_stop", "exited", "crashed"}
  /\ fetched \in RefreshBodies \cup {NoBody}
  /\ engines \in 0..2
  /\ refreshes \in 0..MaxRefreshes
  /\ call.op \in {"none", "sendAlert", "checkAllVideos",
                  "createSimplifiedPayload", "start", "request",
                  "parseProxyLink"}
  /\ reply.op = call.op

\* ------------------------------------------------------------ properties

\* the step in which a cycle reaches the state machine: runCheck's analysis
\* and the synchronous part of the handler it selects
Settles == pc = "analyze" /\ analyzed'

\* the configured debounce window, in milliseconds
WindowMs == debounceMinutes * 60 * 1000

\* C1: at most one check cycle is in flight at any time; an invocation of
\* runCheck either starts a cycle at once or is dropped: the cycles started
\* are exactly the invocations that were not skipped, so a skipped invocation
\* is neither queued nor run later
C1_SingleFlight ==
  /\ active <= 1
  /\ isCheckInProgress <=> active = 1
  /\ pc # "idle" => isCheckInProgress
  /\ totalChecks = invocations - skippedTicks

\* a timer tick was skipped during a cycle, that cycle has returned, and a
\* later tick has started and finished a further cycle
C1_Witness ==
  /\ skippedTicks >= 1
  /\ totalChecks >= 2
  /\ pc = "idle"
  /\ active = 0

\* C2: an exception raised inside a cycle is caught by the cycle itself:
\* the step in which it is raised increments totalFailures, clears the
\* in-progress guard and ends the cycle; whenever no cycle is running the
\* guard is false, so the next invocation starts a cycle
C2_NoFailureEscapes ==
  /\ [](pc = "idle" => ~isCheckInProgress)
  /\ [][(threw' /\ ~threw) =>
          /\ totalFailures' > totalFailures
          /\ ~isCheckInProgress'
          /\ pc' = "idle"]_vars

\* a cycle has ended by an exception and the guard is clear
C2_Witness ==
  /\ threw
  /\ pc = "idle"
  /\ ~isCheckInProgress
  /\ totalFailures >= 1

\* the health state as a function of failedCount and alertThreshold alone
HealthByCount ==
  /\ currentState = "failed" <=> failedCount >= alertThreshold
  /\ currentState = "degraded" <=> (0 < failedCount /\ failedCount < alertThreshold)
  /\ currentState = "healthy" <=> failedCount = 0

\* C3 (as stated): after every cycle that reaches the state machine, for
\* every configured alertThreshold, the state is failed iff failedCount >=
\* alertThreshold, degraded iff 0 < failedCount < alertThreshold and healthy
\* iff failedCount = 0
C3_HealthByCountAnyThreshold == analyzed => HealthByCount

\* C3 (amended): the same for every alertThreshold >= 1
C3_HealthByCount == (analyzed /\ alertThreshold >= 1) => HealthByCount

\* a degraded cycle right after a failed one: the state follows the count,
\* not the previous state
C3_Witness ==
  /\ analyzed
  /\ alertThreshold = 2
  /\ failedCount = 1
  /\ previousState = "failed"
  /\ currentState = "degraded"

\* C4 (as stated): on a cycle with failedCount >= alertThreshold an error
\* alert is raised iff the previous state was not failed, or it was failed
\* and more than the debounce window has elapsed since lastAlertSent; a
\* failed cycle after a failed cycle inside the window raises no alert and
\* leaves lastAlertSent unchanged
C4_ErrorAlertIffElapsed ==
  [][(Settles /\ failedCount' >= alertThreshold) =>
       LET elapsed == lastAlertSent # Null /\ DateNow - lastAlertSent > WindowMs
       IN /\ decision' = "error" <=> (currentState # "failed" \/ elapsed)
          /\ (currentState = "failed" /\ ~elapsed) =>
               (decision' = "none" /\ lastAlertSent' = lastAlertSent)]_vars

\* C4 (amended): the error alert is raised iff the previous state was not
\* failed, or it was failed and either no alert time is recorded or more
\* than the debounce window has elapsed since lastAlertSent; a failed cycle
\* after a failed cycle inside the window of a recorded alert raises no
\* alert and leaves lastAlertSent unchanged
C4_ErrorAlertIffElapsedOrUnset ==
  [][(Settles /\ failedCount' >= alertThreshold) =>
       LET elapsed == lastAlertSent = Null \/ DateNow - lastAlertSent > WindowMs
       IN /\ decision' = "error" <=> (currentState # "failed" \/ elapsed)
          /\ (currentState = "failed" /\ ~elapsed) =>
               (decision' = "none" /\ lastAlertSent' = lastAlertSent)]_vars

\* a failed cycle after a failed cycle, exactly one window after the recorded
\* alert, has raised no alert
C4_Witness ==
  /\ analyzed
  /\ pc = "idle"
  /\ failedCount >= alertThreshold
  /\ previousState = "failed"
  /\ decision = "none"
  /\ lastAlertSent # Null
  /\ DateNow - lastAlertSent = WindowMs

\* C5: an error alert is never posted earlier than the debounce interval
\* after the previous posted error alert
C5_ErrorAlertsSpaced ==
  [][(pc = "alert" /\ pendingEvent = "error" /\ notified' # {}
        /\ lastErrorPostAt # Null) =>
       DateNow - lastErrorPostAt >= WindowMs]_vars

\* C6: a cycle raises a recovery alert iff it moves the state from failed to
\* healthy, and some cycle has ended in state failed since the previous
\* recovery alert
C6_RecoveryIffFailedToHealthy ==
  [][Settles =>
       /\ decision' = "recovery" <=>
            (currentState = "failed" /\ currentState' = "healthy")
       /\ decision' = "recovery" => failedSinceRecovery]_vars

\* a second recovery alert, posted to an endpoint
C6_Witness ==
  /\ decision = "recovery"
  /\ previousState = "failed"
  /\ currentState = "healthy"
  /\ alertEvent = "recovery"
  /\ notified # {}
  /\ totalChecks = 4

\* C7: a degradation or warning alert is raised only by a cycle with
\* 0 < failedCount < alertThreshold whose previous state is healthy, and a
\* cycle with failedCount = 0 lies between any two such alerts
C7_DegradationOnlyFromHealthy ==
  /\ [](alertEvent \in {"degradation", "warning"} => decision = "degradation")
  /\ [][Settles =>
          (decision' = "degradation" =>
             /\ 0 < failedCount'
             /\ failedCount' < alertThreshold
             /\ currentState = "healthy"
             /\ zeroSinceDegradation)]_vars

\* a second degradation alert has been posted, a healthy cycle lying between
\* it and the first
C7_Witness ==
  /\ decision = "degradation"
  /\ previousState = "healthy"
  /\ alertEvent \in {"degradation", "warning"}
  /\ notified # {}
  /\ totalChecks >= 3
  /\ lastCheckResults # <<>>
  /\ pc = "idle"

\* C8: when a healthy -> degraded alert has been handed to the dispatcher
\* and no enabled endpoint subscribes to degradation, every enabled endpoint
\* subscribed to warning is notified
C8_WarningFallbackNotifies ==
  (/\ decision = "degradation"
   /\ alertEvent # "none"
   /\ webhooksEnabled
   /\ ~\E i \in DOMAIN endpoints :
         endpoints[i].enabled /\ "degradation" \in endpoints[i].events)
  => \A i \in DOMAIN endpoints :
       (endpoints[i].enabled /\ "warning" \in endpoints[i].events)
         => i \in notified

\* the consecutive-failure counter after a cycle that reached the state
\* machine: 0 after a cycle without failures, positive after a second
\* threshold-crossing cycle in a row
CounterByCount ==
  /\ failedCount = 0 => consecutiveFailures = 0
  /\ (failedCount >= alertThreshold /\ previousState = "failed")
       => consecutiveFailures > 0

\* C9 (as stated): for every configured alertThreshold, consecutiveFailures
\* is 0 right after a cycle with failedCount = 0 and positive right after a
\* threshold-crossing cycle that followed another one
C9_CounterAnyThreshold == analyzed => CounterByCount

\* C9 (amended): the same for every alertThreshold >= 1
C9_Counter == (analyzed /\ alertThreshold >= 1) => CounterByCount

\* the counter has been reset by a healthy cycle that followed a failed one
C9_Witness ==
  /\ analyzed
  /\ alertThreshold >= 1
  /\ failedCount = 0
  /\ previousState = "failed"
  /\ consecutiveFailures = 0
  /\ totalChecks >= 3

\* C10: totalFailedChecks never exceeds totalChecks
C10_FailuresBoundedByChecks == totalFailures <= totalChecks

\* the number of targets
Targets == Len(Videos)

\* C11: the failure of one node never keeps the rest of the cycle from
\* running: once a node has been handled, its engine stopped in the finally
\* block included, the cycle goes on to the next node or to the analysis
\* holding one result per target for every node handled so far, and the
\* result set that reaches the analysis has nodes x targets entries
\* (targets entries when there are no nodes)
C11_NodeFailureIsolated ==
  /\ [](pc = "analyze" =>
          Len(allResults) = (IF cycleNodes = <<>> THEN 1 ELSE Len(cycleNodes))
                              * Targets)
  /\ [][pc = "node_stop" =>
          /\ pc' \in {"node_start", "analyze"}
          /\ Len(allResults') = nodeIdx * Targets]_vars

\* C12: when a caller's start() has failed, no engine process is left
\* running once the caller has moved on: neither after the per-node finally
\* block of runCheck nor after the PROXY_LINK start-up of start()
C12_NoEngineLeftAfterFailedStart ==
  /\ [][(pc = "node_stop" /\ pc' # "node_stop") => engines' = 0]_vars
  /\ [][(daemon = "boot" /\ daemon' = "init" /\ socksProxy' = NoProxy)
          => engines' = 0]_vars

\* C13: stop() on an instance that spawned no process, or whose process has
\* already exited, does nothing: no process is signalled and no error is
\* raised
C13_StopIdempotent ==
  [][(pc = "node_stop" /\ proc # "alive") =>
       (engines' = engines /\ ~threw')]_vars

\* C14: at most one engine process is alive at any time, and none is alive
\* when start() is about to be called for a node
C14_OneEngine ==
  /\ engines <= 1
  /\ pc = "node_start" => engines = 0

\* the second node's engine is up after the first node's engine, whose
\* start had timed out with the process running, was stopped
C14_Witness ==
  /\ pc = "node_probe"
  /\ nodeIdx = 2
  /\ engines = 1
  /\ Len(allResults) = Targets
  /\ ~allResults[1].success
  /\ nodeLabel = "B"

\* C15: when the probe's timeout has expired, checkVideo has returned
C15_ProbeBoundedByTimeout == ~(timedOut /\ pc \in {"node_probe", "direct"})

\* a persistent engine was established at start-up: start() ran in
\* PROXY_LINK mode and pointed the checker at the engine's endpoint
PersistentEstablished ==
  ~subscriptionUrl /\ proxyLink /\ socksProxy = SocksEndpoint

\* C16: a cycle that finds the node list empty probes every target once and,
\* unless a persistent engine was established at start-up, directly: the
\* probe command carries no proxy argument and the results carry no node
\* label, also after earlier cycles that checked nodes
C16_DirectWhenNoNodes ==
  [][(pc = "direct" /\ pc' = "analyze") =>
       /\ Len(allResults') = Targets
       /\ ~PersistentEstablished =>
            /\ ProbeArgs(socksProxy) = <<>>
            /\ \A i \in DOMAIN allResults' :
                 allResults'[i].node_label = NoLabel]_vars

\* a response that is a failed refresh: undecodable, empty, or without a
\* parseable node
FailedRefresh(body) ==
  body # NoBody /\ (~body.base64 \/ ParseLines(body.lines) = <<>>)

\* C17: a refresh whose response is empty, undecodable or without a
\* parseable node leaves the node list as it was
C17_FailedRefreshKeepsNodes ==
  [][(FailedRefresh(fetched) /\ fetched' = NoBody /\ shutdown' = shutdown)
       => currentNodes' = currentNodes]_vars

\* C18: a cycle takes the node list that is current at its entry, decides
\* between node mode and direct mode on that list and keeps it to its end,
\* and every result of a node-mode cycle belongs to the node at its position
\* in that list, whatever a refresh has made of this.currentNodes meanwhile
C18_CycleKeepsEntryList ==
  /\ []((pc \in {"node_start", "node_probe", "node_stop", "analyze"}
           /\ cycleNodes # <<>>) =>
          \A i \in DOMAIN allResults :
            allResults[i].node_label = cycleNodes[((i - 1) \div Targets) + 1])
  /\ [][(~isCheckInProgress /\ isCheckInProgress') =>
          /\ cycleNodes' = currentNodes
          /\ pc' = "direct" <=> currentNodes = <<>>]_vars
  /\ [][(isCheckInProgress /\ isCheckInProgress') =>
          cycleNodes' = cycleNodes]_vars

\* a refresh has replaced the list while the first node was being checked,
\* and the cycle has gone on to the second node of the list it entered with
C18_Witness ==
  /\ pc = "node_probe"
  /\ nodeIdx = 2
  /\ cycleNodes = <<"A", "B">>
  /\ currentNodes = <<"B", "A">>
  /\ nodeLabel = "B"
  /\ Len(allResults) = Targets

\* C19: when the shutdown handler exits the process, no engine process is
\* alive
C19_NoEngineAtExit ==
  [][(shutdown # "exited" /\ shutdown' = "exited") => engines' = 0]_vars

\* the steps of a complete shutdown, in order
ShutdownOrder ==
  <<"timer">> \o (IF subscriptionUrl THEN <<"refresh">> ELSE <<>>)
    \o (IF xrayManager \in {"alive", "exited"} THEN <<"engine">> ELSE <<>>)
    \o <<"metrics", "exit">>

\* C20: a process that ends after a shutdown signal has cleared the check
\* timer, stopped the refresh timer, terminated the persistent engine and
\* stopped the metrics listener, in that order, before it exited; and once
\* the handler has started, the timer starts no further cycle
C20_ShutdownInOrder ==
  /\ [](shutdown \in {"exited", "crashed"} =>
          (shutdownSteps = ShutdownOrder /\ ~metricsListening))
  /\ [][shutdown # "none" => totalChecks' <= totalChecks]_vars

\* the endpoints a payload of the call's kind is meant for: the webhooks are
\* enabled, the endpoint is enabled and it subscribes to the kind
Qualifies(i) ==
  /\ call.enabled
  /\ call.endpoints[i].enabled
  /\ call.event \in call.endpoints[i].events

\* C21: whichever deliveries fail, sendAlert makes exactly one POST to every
\* resolved endpoint and returns normally to its caller
C21_DispatchNeverFails ==
  call.op = "sendAlert" =>
    /\ reply.outcome = "returned"
    /\ \A i \in DOMAIN call.endpoints : Qualifies(i) => reply.posts[i] = 1

\* two endpoints are resolved, the delivery to the first one fails and the
\* second one has had its POST
C21_Witness ==
  /\ call.op = "sendAlert"
  /\ \A i \in 1..2 : Qualifies(i)
  /\ call.failing = {1}
  /\ reply.rejected = {1}
  /\ reply.posts[2] = 1

\* C22: a payload of kind k is POSTed to an endpoint exactly when the
\* webhooks are enabled, the endpoint is enabled and it subscribes to k; when
\* no endpoint qualifies nothing is POSTed
C22_DeliveredIffSubscribed ==
  call.op = "sendAlert" =>
    /\ \A i \in DOMAIN call.endpoints : (reply.posts[i] > 0) <=> Qualifies(i)
    /\ (~ \E i \in DOMAIN call.endpoints : Qualifies(i)) =>
         (\A i \in DOMAIN call.endpoints : reply.posts[i] = 0)

\* the first endpoint subscribes to the kind but is disabled and gets
\* nothing, the second one is enabled and subscribed and gets the payload
C22_Witness ==
  /\ call.op = "sendAlert"
  /\ call.enabled
  /\ ~call.endpoints[1].enabled
  /\ call.event \in call.endpoints[1].events
  /\ Qualifies(2)
  /\ reply.posts[1] = 0
  /\ reply.posts[2] = 1

\* the results of the i-th node of the cycle handed to the alert manager
ResultsOfNode(i) ==
  SubSeq(call.details, (i - 1) * Len(ThreeVideos) + 1, i * Len(ThreeVideos))

\* the failed counts listed in a breakdown, summed
RECURSIVE ListedFailures(_)
ListedFailures(summaries) ==
  IF summaries = <<>> THEN 0
  ELSE Head(summaries).failed + ListedFailures(Tail(summaries))

\* C23: the breakdown of an alert lists a node exactly when one of that
\* node's results failed, the listed failed counts sum to the cycle's
\* failedCount, and when only the second of three nodes failed on all three
\* targets the breakdown is that node alone with 3 of 3 failed
C23_BreakdownPerNode ==
  call.op = "createSimplifiedPayload" =>
    /\ \A i \in DOMAIN call.labels :
         (\E k \in DOMAIN reply.failing_nodes :
             reply.failing_nodes[k].node = call.labels[i])
           <=> CountFailed(ResultsOfNode(i)) > 0
    /\ ListedFailures(reply.failing_nodes) = call.failed_videos
    /\ ( /\ CountFailed(ResultsOfNode(1)) = 0
         /\ CountFailed(ResultsOfNode(2)) = Len(ThreeVideos)
         /\ CountFailed(ResultsOfNode(3)) = 0 )
       => reply.failing_nodes
            = << [node |-> call.labels[2], failed |-> 3, total |-> 3] >>

\* C25: whatever the tool does for each video, checkAllVideos returns to its
\* caller with one result per configured video, in configuration order, and
\* a result is a success exactly when the tool exited with code 0
C25_ProbeNeverRaises ==
  call.op = "checkAllVideos" =>
    /\ reply.outcome = "returned"
    /\ Len(reply.results) = Len(call.videos)
    /\ \A i \in DOMAIN call.videos :
         /\ reply.results[i].video_id = call.videos[i]
         /\ reply.results[i].success <=> (call.tools[i] = "exit0")

\* the tool could not be spawned for the first video and exited with code 0
\* for the second one
C25_Witness ==
  /\ call.op = "checkAllVideos"
  /\ call.videos = <<"v2", "v1">>
  /\ call.tools = <<"spawn_failed", "exit0">>
  /\ reply.outcome = "returned"
  /\ ~reply.results[1].success
  /\ reply.results[2].success

\* the number of the first connect attempt the port would accept among the
\* attempts start() can make, or 0
FirstAccepted ==
  IF \E k \in 1..MaxAttempts : k \in call.accepting
  THEN CHOOSE k \in 1..MaxAttempts :
         k \in call.accepting /\ \A j \in 1..(k - 1) : j \notin call.accepting
  ELSE 0

\* C24 (as stated): start() returns on the first accepted connect to the
\* SOCKS port and otherwise fails after exactly 30 refused attempts
C24_StartReturnsOrExhausts ==
  call.op = "start" =>
    \/ /\ reply.outcome = "returned"
       /\ reply.connected
       /\ reply.refused = FirstAccepted - 1
    \/ /\ reply.outcome = "raised"
       /\ ~reply.connected
       /\ reply.refused = MaxAttempts

\* C24 (amended): start() ends after at most 30 connect attempts: it fails before any
\* attempt when no process could be spawned; once xray is spawned it returns
\* on the first accepted connect and otherwise fails after exactly 30
\* refused attempts; it never returns without an accepted connect
C24_StartTerminates ==
  call.op = "start" =>
    /\ reply.refused <= MaxAttempts
    /\ reply.outcome = "returned" => reply.connected
    /\ call.launch # "spawned" =>
         (reply.outcome = "raised" /\ reply.refused = 0 /\ ~reply.spawned)
    /\ (call.launch = "spawned" /\ FirstAccepted > 0) =>
         (reply.outcome = "returned" /\ reply.refused = FirstAccepted - 1)
    /\ (call.launch = "spawned" /\ FirstAccepted = 0) =>
         (reply.outcome = "raised" /\ reply.refused = MaxAttempts)

\* the port opens only after the last attempt and the start has failed after
\* 30 refused connects
C24_Witness ==
  /\ call.op = "start"
  /\ call.launch = "spawned"
  /\ call.accepting = {MaxAttempts + 1, MaxAttempts + 2}
  /\ reply.outcome = "raised"
  /\ reply.refused = MaxAttempts

\* the request carries a Basic header whose user name (the text before the
\* first colon) and password (the text after it) are the configured ones
CarriesCredentials ==
  /\ call.authorization.scheme = "Basic"
  /\ call.authorization.base64
  /\ Len(call.authorization.credentials) >= 2
  /\ call.authorization.credentials[1] = call.credentials.username
  /\ Tail(call.authorization.credentials) = call.credentials.password

\* C27: with credentials configured, a request to the metrics path or to its
\* /json variant is answered with the metrics exactly when it carries the
\* configured user name and password in a Basic header, and with 401 and a
\* challenge otherwise; /health is answered 200 in every configuration
C27_MetricsIffCredentials ==
  call.op = "request" =>
    /\ call.pathname = "/health" => reply.status = 200
    /\ (AuthEnabled(call.credentials)
        /\ call.pathname \in {MetricsPath, JsonPath}) =>
         IF CarriesCredentials
         THEN reply.status = 200
         ELSE reply.status = 401 /\ reply.challenge

\* C26: the step in which the metrics server answers a request leaves every
\* field of MonitorState, and the cycle in progress, as they were
C26_MetricsRequestReadsOnly ==
  [][(call.op # "request" /\ call'.op = "request") =>
       /\ UNCHANGED monitorState
       /\ UNCHANGED <<isCheckInProgress, pc, locals>>]_vars

\* a scrape has been answered with the counters of the state while the
\* second cycle was in progress, after a failed first cycle
C26_Witness ==
  /\ call.op = "request"
  /\ call.pathname = JsonPath
  /\ reply.status = 200
  /\ isCheckInProgress
  /\ pc = "direct"
  /\ totalChecks = 2
  /\ currentState = "failed"
  /\ lastCheckResults # <<>>
  /\ reply.body.checks.total = 2
  /\ reply.body.status = "failed"

C29_RequiredFieldsOrFailure ==
  (call.op = "parseProxyLink" /\ reply.outcome = "returned") =>
    /\ reply.outbound.address \notin {"", Undefined}
    /\ reply.outbound.port # NaN
    /\ reply.outbound.credential \notin {"", Undefined}
    /\ reply.outbound.protocol = "shadowsocks" =>
         reply.outbound.method \notin {"", Undefined}

\* C30: the outbound of a vless or trojan link carries TLS parameters only
\* when security=tls and reality parameters only when security=reality, and
\* ws, grpc or http sub-settings exactly when type is ws, grpc, or http or h2
C30_SettingsFollowQuery ==
  (/\ call.op = "parseProxyLink"
   /\ call.link.scheme \in {"vless", "trojan"}
   /\ reply.outcome = "returned") =>
    /\ "tlsSettings" \in reply.outbound.settings =>
         call.link.security = "tls"
    /\ "realitySettings" \in reply.outbound.settings =>
         call.link.security = "reality"
    /\ "wsSettings" \in reply.outbound.settings <=> call.link.type = "ws"
    /\ "grpcSettings" \in reply.outbound.settings <=> call.link.type = "grpc"
    /\ "httpSettings" \in reply.outbound.settings
         <=> call.link.type \in {"http", "h2"}

\* how a step changes consecutiveFailures: the step that settles a cycle
\* adds one when failedCount >= alertThreshold, sets it to 0 when
\* failedCount = 0 and keeps it when the cycle is degraded; every other step,
\* the end of a cycle by an exception included, keeps it
CounterSteps ==
  /\ (Settles /\ failedCount' >= alertThreshold)
       => consecutiveFailures' = consecutiveFailures + 1
  /\ (Settles /\ failedCount' = 0) => consecutiveFailures' = 0
  /\ (Settles /\ 0 < failedCount' /\ failedCount' < alertThreshold)
       => consecutiveFailures' = consecutiveFailures
  /\ ~Settles => consecutiveFailures' = consecutiveFailures

\* C31 (as stated): for every configured alertThreshold, consecutiveFailures
\* changes only by a threshold-crossing cycle adding one and by a cycle with
\* failedCount = 0 setting it to 0
C31_CounterStepsAnyThreshold == [][CounterSteps]_vars

\* C31 (amended): the same for every alertThreshold >= 1
C31_CounterSteps == [][alertThreshold >= 1 => CounterSteps]_vars

\* two threshold-crossing cycles have been counted and the cycle after them
\* has ended by an exception before the state machine, leaving the counter
C31_Witness ==
  /\ alertThreshold >= 1
  /\ pc = "idle"
  /\ threw
  /\ ~analyzed
  /\ totalChecks = 3
  /\ consecutiveFailures = 2

\* the fields a cycle publishes once it has checked every node
Published ==
  <<lastCheckResults, currentState, consecutiveFailures, lastAlertSent>>

\* the size of a complete result set: one result per target and node of the
\* cycle (per target when there are no nodes)
Complete(nodes) ==
  Targets * (IF Len(nodes) > 0 THEN Len(nodes) ELSE 1)

\* C32: MonitorState is written only while the one cycle in flight runs; the
\* results, the health state, the failure counter and the alert stamp change
\* only once the cycle holds the results of all its nodes; and the results a
\* metrics read exposes are at any moment none or the complete set of one
\* cycle
C32_PublishedAtCycleEnd ==
  /\ [][monitorState' # monitorState =>
          /\ isCheckInProgress \/ isCheckInProgress'
          /\ active <= 1 /\ active' <= 1]_vars
  /\ [][Published' # Published =>
          /\ pc \in {"analyze", "alert_done"}
          /\ Len(allResults) = Complete(cycleNodes)]_vars
  /\ [](Len(GetPrometheusMetrics(currentState, totalChecks, totalFailures,
                                 lastCheckResults).youtube_check_success)
          \in {0, Complete(currentNodes)})

\* the second cycle holds the results of its first node only, and the state
\* still shows the complete results and the health state of the first cycle
C32_Witness ==
  /\ totalChecks = 2
  /\ pc = "node_start"
  /\ nodeIdx = 2
  /\ Len(allResults) = Targets
  /\ ~allResults[1].success
  /\ Len(lastCheckResults) = Complete(currentNodes)
  /\ \A k \in DOMAIN lastCheckResults : lastCheckResults[k].success
  /\ currentState = "healthy"

\* a fraction between 0.0 and 1.0
InUnitInterval(rate) ==
  /\ rate.denominator > 0
  /\ 0 <= rate.numerator
  /\ rate.numerator <= rate.denominator

\* C33: the success rate the metrics endpoint exposes, as JSON and as text,
\* lies between 0.0 and 1.0 in every state
C33_SuccessRateInUnitInterval ==
  /\ InUnitInterval(GetMetrics(currentState, totalChecks, totalFailures,
                               lastCheckResults).checks.success_rate)
  /\ InUnitInterval(GetPrometheusMetrics(currentState, totalChecks,
                                         totalFailures, lastCheckResults)
                      .youtube_check_success_rate)

\* C34: an invocation of runCheck that is skipped leaves MonitorState as it
\* was, starts no engine, sends no alert, and leaves the guard set and the
\* running cycle where it is
C34_SkipChangesNothing ==
  [][skippedTicks' # skippedTicks =>
       /\ UNCHANGED <<monitorState, proxyState>>
       /\ UNCHANGED <<engines, proc, xrayManager>>
       /\ UNCHANGED <<decision, alertEvent, notified, pendingEvent>>
       /\ isCheckInProgress /\ isCheckInProgress'
       /\ UNCHANGED <<pc, allResults, nodeIdx, active>>]_vars

\* a tick has been skipped while the cycle was probing through the engine
\* of its second node
C34_Witness ==
  /\ skippedTicks = 1
  /\ isCheckInProgress
  /\ pc = "node_probe"
  /\ nodeIdx = 2
  /\ engines = 1
  /\ totalChecks = 2

\* C35: in node mode the events of a cycle are ordered node by node. A node's
\* engine is started only when no other engine of the cycle is alive and the
\* results of every earlier node are complete; probes are issued only
\* through a started engine of the node in turn; the engine is stopped only
\* after the node's results are complete; and the loop moves to the next
\* node only from the stop of the previous one
C35_NodeEventsOrdered ==
  /\ [](pc = "node_start" =>
          /\ proc = "none" /\ engines = 0
          /\ Len(allResults) = Targets * (nodeIdx - 1))
  /\ [](pc = "node_probe" =>
          /\ proc = "alive" /\ engines = 1
          /\ socksProxy = SocksEndpoint
          /\ Len(allResults) = Targets * (nodeIdx - 1))
  /\ [](pc = "node_stop" => Len(allResults) = Targets * nodeIdx)
  /\ [][pc = "node_start" => pc' \in {"node_probe", "node_stop"}]_pc
  /\ [][pc = "node_probe" => pc' = "node_stop"]_pc
  /\ [][pc = "node_stop" => pc' \in {"node_start", "analyze", "idle"}]_pc
  /\ [][pc' = "node_probe" => pc = "node_start" /\ proc' = "alive"]_pc
  /\ [][(nodeIdx' # nodeIdx /\ nodeIdx' > 1) =>
          /\ pc = "node_stop" /\ pc' = "node_start"
          /\ nodeIdx' = nodeIdx + 1
          /\ engines' = 0]_vars
  /\ [][(Len(allResults') > Len(allResults) /\ pc = "node_probe") =>
          proc = "alive" /\ pc' = "node_stop"]_vars

\* the second node's engine is up and about to be probed after the first
\* node's start had failed and its engine had been stopped
C35_Witness ==
  /\ pc = "node_probe"
  /\ nodeIdx = 2
  /\ proc = "alive"
  /\ engines = 1
  /\ Len(allResults) = Targets
  /\ ~allResults[1].success

\* the node under which the k-th result of a node-mode cycle is produced
NodeOf(k) == cycleNodes[((k - 1) \div Targets) + 1]

\* C36: every result of a node-mode cycle carries the label of the node
\* under which it was produced. The results a step appends, by probing
\* through the node's engine or by synthesizing failures for it, are labelled
\* with the node in turn and cover the videos in configuration order, and the
\* result set that reaches the analysis lists the nodes in directory order
C36_ResultsLabelledByNode ==
  /\ [][(pc \in {"node_start", "node_probe"} /\ allResults' # allResults) =>
          /\ Len(allResults') = Len(allResults) + Targets
          /\ SubSeq(allResults', 1, Len(allResults)) = allResults
          /\ \A j \in 1..Targets :
               /\ allResults'[Len(allResults) + j].node_label
                    = cycleNodes[nodeIdx]
               /\ allResults'[Len(allResults) + j].video_id = Videos[j]]_vars
  /\ []((pc = "analyze" /\ cycleNodes # <<>>) =>
          /\ Len(allResults) = Targets * Len(cycleNodes)
          /\ \A k \in DOMAIN allResults :
               /\ allResults[k].node_label = NodeOf(k)
               /\ allResults[k].node_label # NoLabel)
  /\ [][(Settles /\ cycleNodes # <<>>) =>
          \A k \in DOMAIN lastCheckResults' :
            lastCheckResults'[k].node_label = NodeOf(k)]_vars

\* a cycle over two nodes has reached the analysis with the first node's
\* probe result followed by the failure synthesized for the second node,
\* whose engine did not start
C36_Witness ==
  /\ pc = "analyze"
  /\ cycleNodes = <<"A", "B">>
  /\ Len(allResults) = 2 * Targets
  /\ allResults[1].node_label = "A"
  /\ allResults[1].success
  /\ allResults[Targets + 1].node_label = "B"
  /\ ~allResults[Targets + 1].success
  /\ nodeLabel = "A"

\* C37: a cycle that ends by an exception before it reaches the state
\* machine leaves currentState, consecutiveFailures, lastAlertSent and
\* lastCheckResults as the previous cycle left them and raises no alert: no
\* step of a cycle that has not reached the state machine changes them or
\* decides on an alert, the cycle's entry adds one to totalChecks, and the
\* exception adds one to totalFailures
C37_AbortLeavesHealthState ==
  /\ [][~analyzed' =>
          /\ UNCHANGED Published
          /\ decision' = "none" /\ pendingEvent' = "none" /\ notified' = {}
          /\ totalChecks' # totalChecks =>
               /\ totalChecks' = totalChecks + 1
               /\ ~isCheckInProgress /\ isCheckInProgress'
          /\ totalFailures' # totalFailures =>
               /\ totalFailures' = totalFailures + 1
               /\ threw' /\ ~threw]_vars
  /\ [][(threw' /\ ~threw /\ ~analyzed') =>
          /\ UNCHANGED <<Published, totalChecks, proxyState>>
          /\ totalFailures' = totalFailures + 1
          /\ pc' = "idle"]_vars

\* the second cycle has ended by an exception before the analysis, after a
\* first cycle that left the monitor degraded
C37_Witness ==
  /\ threw
  /\ ~analyzed
  /\ pc = "idle"
  /\ totalChecks = 2
  /\ totalFailures = 1
  /\ currentState = "degraded"
  /\ Len(lastCheckResults) = 2 * Targets
  /\ decision = "none"

\* C38: a cycle with failedCount = 0 whose previous state is degraded raises
\* no alert, whether or not an error alert is still unanswered. Every
\* recovery alert answers an error-alert decision made since the previous
\* recovery alert (failedSinceRecovery is raised only by a cycle that
\* decides on an error alert and is lowered by every recovery alert), so
\* recovery alerts never outnumber error-alert decisions
C38_NoRecoveryFromDegraded ==
  /\ [][(Settles /\ failedCount' = 0 /\ currentState = "degraded") =>
          /\ decision' = "none"
          /\ pendingEvent' = "none"
          /\ currentState' = "healthy"
          /\ failedSinceRecovery' = failedSinceRecovery]_vars
  /\ [][(~failedSinceRecovery /\ failedSinceRecovery') =>
          Settles /\ decision' = "error"]_vars
  /\ [][(Settles /\ decision' = "recovery") =>
          failedSinceRecovery /\ ~failedSinceRecovery']_vars
  /\ [](~failedSinceRecovery => currentState # "failed")

\* failed, degraded, healthy: the third cycle has found every target
\* reachable after a degraded one, the error alert of the first cycle was
\* posted, and no recovery alert answers it
C38_Witness ==
  /\ analyzed
  /\ pc = "idle"
  /\ totalChecks = 3
  /\ failedCount = 0
  /\ previousState = "degraded"
  /\ currentState = "healthy"
  /\ decision = "none"
  /\ notified = {}
  /\ failedSinceRecovery
  /\ lastErrorPostAt # Null

\* the daemon was started with a subscription and holds no refresh timer
\* although no shutdown has begun: its initial fetch failed
InitialFetchFailed ==
  /\ subscriptionUrl
  /\ daemon \in {"init", "first", "running"}
  /\ shutdown = "none"
  /\ ~refreshInterval

\* C39: the periodic refresh is started only by a start() whose initial
\* fetch succeeded. When the initial fetch fails, no refresh is ever
\* scheduled or started, the node list stays empty, and every cycle runs the
\* direct check
C39_RefreshOnlyAfterInitialFetch ==
  /\ [][(daemon = "boot" /\ daemon' # "boot" /\ subscriptionUrl) =>
          \E body \in StartupBodies :
            IF FetchThrows(body)
              THEN ~refreshInterval' /\ currentNodes' = <<>>
              ELSE refreshInterval' /\ currentNodes' = ParseLines(body.lines)]_vars
  /\ [][(~refreshInterval /\ refreshInterval') =>
          daemon = "boot" /\ subscriptionUrl]_vars
  /\ [][(fetched = NoBody /\ fetched' # NoBody) => refreshInterval]_vars
  /\ [](InitialFetchFailed =>
          /\ currentNodes = <<>>
          /\ fetched = NoBody
          /\ refreshes = 0
          /\ pc \notin {"node_start", "node_probe", "node_stop"}
          /\ engines = 0)
  /\ [][(InitialFetchFailed /\ ~isCheckInProgress /\ isCheckInProgress') =>
          pc' = "direct"]_vars
  /\ [][(InitialFetchFailed /\ shutdown' = "none") => InitialFetchFailed']_vars

\* the initial fetch failed and the second cycle is running the direct
\* check
C39_Witness ==
  /\ InitialFetchFailed
  /\ daemon = "running"
  /\ totalChecks = 2
  /\ pc = "direct"
  /\ currentNodes = <<>>
  /\ refreshes = 0

\* start() ran in PROXY_LINK mode and its persistent engine did not come up
PersistentFailed ==
  /\ ~subscriptionUrl
  /\ proxyLink
  /\ daemon \in {"init", "first", "running"}
  /\ socksProxy # SocksEndpoint

\* C40: the state reports proxyEnabled = true with proxyStatus "connected"
\* only when the persistent engine was started successfully and the checker
\* routes its probes through the engine's SOCKS endpoint; after a failed
\* persistent start the proxy is reported as disabled
C40_ProxyReportedAsStarted ==
  /\ (proxyEnabled /\ proxyStatus = "connected") =>
       (PersistentEstablished /\ ProbeArgs(socksProxy) # <<>>)
  /\ PersistentFailed => ~proxyEnabled

====
